---- MODULE Spec2Model ----
(***************************************************************************)
(* Session-token lifecycle and credit reconciliation of the SnapToy        *)
(* client: the axios client of ApiService with its two interceptors, the   *)
(* token store (expo-secure-store), the AuthProvider and CreditProvider    *)
(* reducers and the usePhotoTransform hook.                                *)
(*                                                                         *)
(* Every asynchronous call chain is a task with a stack of frames.  A      *)
(* frame is one suspended JavaScript function (or one axios request); the  *)
(* register ret[t] holds the value or exception travelling to the frame on *)
(* top of the stack.  A step of the model runs one frame from the point    *)
(* where it resumes to its next network await; calls of expo-secure-store  *)
(* complete inside the step and may fail.                                  *)
(***************************************************************************)
EXTENDS Integers, Sequences, FiniteSets, TLC

\* ------------------------------------------------------------------ bounds
MaxTasks == 2
MaxDepth == 6
MaxTokens == 2
MaxCredits == 2

Tasks == 1..MaxTasks

\* ------------------------------------------------------------------ values
\* SecureStore.getItemAsync yields null when the key is absent
NoToken == "null"
\* checkStoredAuth dispatches token: "" (an empty string, not a token)
EmptyToken == ""
Token(i) == "tok" \o ToString(i)
IsTruthy(tok) == tok # NoToken /\ tok # EmptyToken

NoUser == "null"
TheUser == "user"
NoError == "null"

\* JavaScript numbers of CreditState.photoCredits: an integer or NaN
Num(n) == [nan |-> FALSE, n |-> n]
NaN == [nan |-> TRUE, n |-> 0]
Undefined == NaN
\* a + b, where b may be undefined (number + undefined is NaN)
JsAdd(a, b) == IF a.nan \/ b.nan THEN NaN ELSE Num(a.n + b.n)
\* a plausible slip: the decrement is lost
JsNoDecrement(a) == a
\* Math.max(0, a - 1)
JsMax0Minus1(a) == IF a.nan THEN NaN ELSE Num(IF a.n - 1 > 0 THEN a.n - 1 ELSE 0)
\* a >= 1 (false for NaN)
JsGe1(a) == ~a.nan /\ a.n >= 1

\* ------------------------------------------------------------------ errors
AxiosMsg == "Request failed"
\* status, hasBody, code, smsg: error.response and its data.error; counts:
\* the response carries creditsRequired / creditsAvailable; message: error.message
NoErr == [status |-> 0, hasBody |-> FALSE, code |-> "", smsg |-> "", message |-> "",
          counts |-> FALSE]
E401 == [status |-> 401, hasBody |-> TRUE, code |-> "INVALID_TOKEN",
         smsg |-> "Invalid token", message |-> AxiosMsg, counts |-> FALSE]
EValidation == [status |-> 400, hasBody |-> TRUE, code |-> "VALIDATION_ERROR",
                smsg |-> "Invalid request body.", message |-> AxiosMsg, counts |-> FALSE]
MsgServerInsufficient == "Insufficient credits. You need 1 credit to transform a photo."
EInsufficient == [status |-> 402, hasBody |-> TRUE, code |-> "INSUFFICIENT_CREDITS",
                  smsg |-> MsgServerInsufficient, message |-> AxiosMsg, counts |-> TRUE]
EServer == [status |-> 500, hasBody |-> FALSE, code |-> "", smsg |-> "", message |-> AxiosMsg,
            counts |-> FALSE]
ETimeout == [status |-> 0, hasBody |-> FALSE, code |-> "", smsg |-> "",
             message |-> "timeout of 30000ms exceeded", counts |-> FALSE]
EStore == [status |-> 0, hasBody |-> FALSE, code |-> "", smsg |-> "",
           message |-> "SecureStore failure", counts |-> FALSE]
\* new Error(msg): a plain error without response
PlainError(msg) == [status |-> 0, hasBody |-> FALSE, code |-> "", smsg |-> "", message |-> msg,
                    counts |-> FALSE]

MsgInsufficient == "Insufficient credits. Please purchase more credits to continue."

\* a plausible slip: the server's message always comes first
handleApiErrorServerFirst(e) ==
  IF e.hasBody /\ e.smsg # "" THEN e.smsg
  ELSE IF e.message # "" THEN e.message
       ELSE "Network error. Please check your connection."
handleApiError(e) ==
  IF e.hasBody
  THEN CASE e.code = "INSUFFICIENT_CREDITS" -> MsgInsufficient
         [] e.code = "INVALID_IMAGE" -> "Invalid image format. Please try with a different photo."
         [] e.code = "TRANSFORMATION_ERROR" -> "Photo transformation failed. Please try again."
         [] e.code = "AUTHENTICATION_REQUIRED" -> "Please sign in to continue."
         [] e.code = "INVALID_TOKEN" -> "Session expired. Please sign in again."
         [] e.code = "RATE_LIMITED" -> "Too many requests. Please try again later."
         [] e.code = "SERVICE_UNAVAILABLE" -> "Service temporarily unavailable. Please try again later."
         [] OTHER -> IF e.smsg # "" THEN e.smsg ELSE "Something went wrong. Please try again."
  ELSE IF e.message # "" THEN e.message
       ELSE "Network error. Please check your connection."

\* ------------------------------------------------------------------ frames
\* f: the suspended function; kind: the endpoint of a request or api method;
\* phase: where the function is suspended; arg: the request's payload class;
\* hdr: the bearer token on the request; err: the error an interceptor holds;
\* seen: what the request interceptor read from the token store at send time;
\* rejected: the bearer the request carried when it was answered 401
Frame(f, kind, phase, arg, hdr, err) ==
  [f |-> f, kind |-> kind, phase |-> phase, arg |-> arg, hdr |-> hdr, err |-> err,
   seen |-> "null", rejected |-> "null"]

Kinds == {"signin", "refresh", "validate", "balance", "transform", "purchase",
          "packages", "history"}

\* the envelope {success, data, error} of a 2xx response
Body(success, hasData, token, credits, msg) ==
  [success |-> success, hasData |-> hasData, token |-> token, credits |-> credits,
   msg |-> msg, valid |-> FALSE, code |-> ""]
NoBody == Body(FALSE, FALSE, NoToken, 0, "")

NoRet == [k |-> "none", from |-> "", body |-> NoBody, err |-> NoErr]
RetOk(from, body) == [k |-> "ok", from |-> from, body |-> body, err |-> NoErr]
RetErr(from, e) == [k |-> "err", from |-> from, body |-> NoBody, err |-> e]

\* default messages of the api methods: error?.message || "<default>"
DefaultMsg(kind) ==
  CASE kind = "signin" -> "Sign-in failed"
    [] kind = "refresh" -> "Token refresh failed"
    [] kind = "validate" -> "Token validation failed"
    [] kind = "balance" -> "Failed to get credit balance"
    [] kind = "transform" -> "Photo transformation failed"
    [] kind = "purchase" -> "Credit purchase failed"
    [] kind = "packages" -> "Failed to get credit packages"
    [] kind = "history" -> "Failed to get purchase history"

\* ------------------------------------------------------------------ state
VARIABLES
  tokenStore,     \* SecureStore item "sessionToken"
  issued,         \* server: number of session tokens issued so far
  serverCredits,  \* server: the user's authoritative credit balance
  authState,      \* AuthProvider reducer state
  creditState,    \* CreditProvider reducer state
  hookState,      \* usePhotoTransform state
  authMounted,    \* has the mount effect of AuthProvider run
  stack,          \* per task: suspended frames, innermost last
  ret,            \* per task: value or exception delivered to the top frame
  sent,           \* per task, per kind: requests put on the wire by the running operation
  refreshBy,      \* per task, per kind: refreshToken() calls the interceptor made for a 401 on that kind
  hist            \* per task: the running (or last finished) operation and its outcome

vars == <<tokenStore, issued, serverCredits, authState, creditState, hookState, authMounted,
          stack, ret, sent, refreshBy, hist>>

Top(t) == stack[t][Len(stack[t])]
Idle(t) == stack[t] = <<>>
AllIdle == \A t \in Tasks : Idle(t)
Pop(s) == SubSeq(s, 1, Len(s) - 1)
ReplaceTop(s, fr) == [s EXCEPT ![Len(s)] = fr]

ZeroCount == [k \in Kinds |-> 0]
\* op, arg: the operation and its input; store0, user0, credits0: the token
\* store, the user and the local balance when it started; reached: it got to
\* the network; resyncs: refreshBalance() calls of transformPhoto; resyncOk:
\* the resync fetch succeeded; optimistic: the balance after consumeCredit();
\* refreshFailed: the kind of its current request if the refresh that the
\* interceptor started for a 401 on that request failed; serverCode: the
\* error code of the server's answer to its transform request; unauthorized:
\* the 401 answers its requests received; latest: no operation was started
\* after it; fetched: the number its response carried (the balance of a
\* fetch, the creditsAdded of a purchase); replaced: the screen called
\* router.replace("/(app)"); alert: the title of the Alert the screen showed;
\* showError: the screen called setShowError(true); done, ok, msg, result: it
\* returned, and with what
NoResult == [success |-> FALSE]
NoHist == [op |-> "", arg |-> "", done |-> FALSE, ok |-> FALSE, msg |-> "",
           store0 |-> NoToken, user0 |-> NoUser, credits0 |-> Num(0), reached |-> FALSE,
           resyncs |-> 0, resyncOk |-> FALSE, optimistic |-> Num(0), result |-> NoResult,
           refreshFailed |-> "", serverCode |-> "", unauthorized |-> 0, latest |-> FALSE,
           fetched |-> Num(0), replaced |-> FALSE, alert |-> "", showError |-> FALSE]


\* ------------------------------------------------------------ token store
\* getStoredSessionToken: a failing read is logged and yields null
getStoredSessionToken(readOk) == IF readOk THEN tokenStore ELSE NoToken

\* request interceptor: attach the stored token if there is one, else leave
\* the headers of the config as they are
requestInterceptor(hdr, readOk) ==
  LET token == getStoredSessionToken(readOk)
  IN IF IsTruthy(token) THEN token ELSE hdr

HttpFrame(kind, arg, hdr) == Frame("http", kind, "inflight", arg, hdr, NoErr)
ApiFrame(kind, arg) == Frame("api", kind, "await", arg, NoToken, NoErr)

\* this.client.request(config): the request interceptor runs on the config,
\* whose headers carry hdr already, and the request goes on the wire
Send(kind, arg, hdr, readOk) ==
  [HttpFrame(kind, arg, requestInterceptor(hdr, readOk))
     EXCEPT !.seen = getStoredSessionToken(readOk)]

\* an ApiService method called from the frame on top of s: the method posts
\* its request through the client and awaits the response
Call(s, kind, arg, readOk) ==
  s \o <<ApiFrame(kind, arg), Send(kind, arg, NoToken, readOk)>>

ApiName(kind) ==
  CASE kind = "signin" -> "signInWithApple"
    [] kind = "refresh" -> "refreshToken"
    [] kind = "validate" -> "validateToken"
    [] kind = "balance" -> "getCreditBalance"
    [] kind = "transform" -> "transformPhoto"
    [] kind = "purchase" -> "purchaseCredits"
    [] kind = "packages" -> "getCreditPackages"
    [] kind = "history" -> "getPurchaseHistory"

\* --------------------------------------------------------------- reducers
AuthAction(type, user, token, msg, flag) ==
  [type |-> type, user |-> user, token |-> token, msg |-> msg, flag |-> flag]

authReducer(state, action) ==
  CASE action.type = "SIGN_IN_START" ->
         [state EXCEPT !.isLoading = TRUE, !.error = NoError]
    [] action.type = "SIGN_IN_SUCCESS" ->
         [state EXCEPT !.user = action.user, !.sessionToken = action.token,
                       !.isLoading = FALSE, !.error = NoError]
    [] action.type = "SIGN_IN_ERROR" ->
         [state EXCEPT !.user = NoUser, !.sessionToken = NoToken,
                       !.isLoading = FALSE, !.error = action.msg]
    [] action.type = "SIGN_OUT" ->
         [state EXCEPT !.user = NoUser, !.sessionToken = NoToken,
                       !.isLoading = FALSE, !.error = NoError]
    [] action.type = "SET_LOADING" ->
         [state EXCEPT !.isLoading = action.flag]
    [] OTHER -> state

\* ------------------------------------------------------------------ server
\* authenticated endpoints answer 2xx only to a request carrying a bearer token
Authenticated(fr) == fr.kind = "signin" \/ IsTruthy(fr.hdr)

ErrorsFor(fr) ==
  CASE fr.kind = "signin" -> IF fr.arg = "valid" THEN {ETimeout} ELSE {EValidation}
    [] fr.kind = "refresh" -> {ETimeout}
    [] fr.kind = "validate" -> {ETimeout}
    [] fr.kind = "balance" -> {EServer}
    [] fr.kind = "transform" -> IF serverCredits = 0 THEN {EInsufficient} ELSE {ETimeout}
    [] fr.kind = "purchase" -> {EServer}
    [] fr.kind = "packages" -> {EServer}
    [] fr.kind = "history" -> {EServer}

InFlight(t) == ~Idle(t) /\ Top(t).f = "http" /\ Top(t).phase = "inflight" /\ ret[t] = NoRet

\* 2xx with {success: true, data}; the response interceptor passes it on
RespondOk(t) ==
  /\ InFlight(t)
  /\ Authenticated(Top(t))
  /\ LET fr == Top(t) IN
     /\ fr.kind = "signin" => fr.arg = "valid"
     /\ fr.kind \in {"signin", "refresh"} => issued < MaxTokens
     /\ fr.kind = "transform" => serverCredits >= 1
     /\ \E added \in 1..MaxCredits, valid \in BOOLEAN :
          /\ fr.kind # "purchase" => added = 1
          /\ fr.kind # "validate" => valid
          /\ fr.kind = "purchase" => serverCredits + added <= MaxCredits
          /\ issued' = IF fr.kind \in {"signin", "refresh"} THEN issued + 1 ELSE issued
          /\ serverCredits' = CASE fr.kind = "transform" -> serverCredits - 1
                                [] fr.kind = "purchase" -> serverCredits + added
                                [] OTHER -> serverCredits
          /\ ret' = [ret EXCEPT ![t] = RetOk("http",
                       CASE fr.kind \in {"signin", "refresh"} ->
                              Body(TRUE, TRUE, Token(issued + 1), 0, "")
                         [] fr.kind = "validate" ->
                              [Body(TRUE, TRUE, NoToken, 0, "") EXCEPT !.valid = valid]
                         [] fr.kind = "balance" -> Body(TRUE, TRUE, NoToken, serverCredits, "")
                         [] fr.kind = "purchase" -> Body(TRUE, TRUE, NoToken, added, "")
                         [] OTHER -> Body(TRUE, TRUE, NoToken, 1, ""))]
  /\ stack' = [stack EXCEPT ![t] = Pop(@)]
  /\ UNCHANGED <<authMounted, tokenStore, authState, creditState, hookState, sent, refreshBy, hist>>

\* the envelopes {success: false, error?} the server can answer a request with
EnvelopeFailures(fr) ==
  {Body(FALSE, FALSE, NoToken, 0, ""), Body(FALSE, FALSE, NoToken, 0, "Request refused")}
  \cup IF fr.kind = "transform" /\ serverCredits = 0
       THEN {[Body(FALSE, TRUE, NoToken, 0, MsgServerInsufficient)
                EXCEPT !.code = "INSUFFICIENT_CREDITS"]}
       ELSE {}

\* the code the server reported for the transform call of task t
Reported(t, code) ==
  [hist EXCEPT ![t].serverCode = IF Top(t).kind = "transform" THEN code ELSE @]

\* 2xx with {success: false, error?}
RespondEnvelopeFail(t) ==
  /\ InFlight(t)
  /\ \E body \in EnvelopeFailures(Top(t)) :
       /\ ret' = [ret EXCEPT ![t] = RetOk("http", body)]
       /\ hist' = Reported(t, body.code)
  /\ stack' = [stack EXCEPT ![t] = Pop(@)]
  /\ UNCHANGED <<authMounted, tokenStore, issued, serverCredits, authState, creditState, hookState,
                 sent, refreshBy>>

\* a status other than 401, a timeout or no response: the response
\* interceptor rejects with the error
RespondError(t) ==
  /\ InFlight(t)
  /\ \E e \in ErrorsFor(Top(t)) :
       /\ ret' = [ret EXCEPT ![t] = RetErr("http", e)]
       /\ hist' = Reported(t, e.code)
  /\ stack' = [stack EXCEPT ![t] = Pop(@)]
  /\ UNCHANGED <<authMounted, tokenStore, issued, serverCredits, authState, creditState, hookState,
                 sent, refreshBy>>

\* a plausible slip: no refresh if the stored token is no longer the one the
\* request was sent with (another request's refresh has replaced it)
RefreshesOn401IfTokenUnchanged(fr) == fr.seen = tokenStore
\* does the response interceptor start the refresh for a 401 on this request
RefreshesOn401(fr) == TRUE

\* 401: the response interceptor calls this.refreshToken(), which posts
\* /auth/refresh through the same client
Respond401(t) ==
  /\ InFlight(t)
  /\ IF RefreshesOn401(Top(t))
     THEN /\ Len(stack[t]) + 2 <= MaxDepth
          /\ \E readOk \in BOOLEAN :
               stack' = [stack EXCEPT ![t] =
                 Call(ReplaceTop(@, [Top(t) EXCEPT !.phase = "refreshing", !.err = E401,
                                                   !.rejected = Top(t).hdr]),
                      "refresh", "", readOk)]
          /\ sent' = [sent EXCEPT ![t]["refresh"] = @ + 1]
          /\ refreshBy' = [refreshBy EXCEPT ![t][Top(t).kind] = @ + 1]
          /\ ret' = ret
     ELSE /\ stack' = [stack EXCEPT ![t] = Pop(@)]
          /\ ret' = [ret EXCEPT ![t] = RetErr("http", E401)]
          /\ UNCHANGED <<authMounted, sent, refreshBy>>
  /\ hist' = [hist EXCEPT ![t].unauthorized = @ + 1]
  /\ UNCHANGED <<authMounted, tokenStore, issued, serverCredits, authState, creditState, hookState>>

Resuming(t, f) == ~Idle(t) /\ Top(t).f = f /\ ret[t] # NoRet

\* a plausible slip: the header of the rejected request is kept
RetryHeaderRejected(fr, token) == fr.hdr
\* originalRequest.headers.Authorization = `Bearer ${token}`, with the token
\* read after refreshToken() resolved
RetryHeader(fr, token) == token

\* the interceptor after refreshToken() resolved: read the token and resend
InterceptorRetry(t) ==
  /\ Resuming(t, "http") /\ Top(t).phase = "refreshing"
  /\ ret[t].k = "ok"
  /\ \E readOk \in BOOLEAN, resendReadOk \in BOOLEAN :
       LET token == getStoredSessionToken(readOk) IN
       IF IsTruthy(token)
       THEN /\ stack' = [stack EXCEPT ![t] =
                 Append(ReplaceTop(@, [Top(t) EXCEPT !.phase = "retrying",
                                                     !.hdr = RetryHeader(Top(t), token)]),
                        Send(Top(t).kind, Top(t).arg, RetryHeader(Top(t), token),
                             resendReadOk))]
            /\ sent' = [sent EXCEPT ![t][Top(t).kind] = @ + 1]
            /\ ret' = [ret EXCEPT ![t] = NoRet]
       ELSE /\ stack' = [stack EXCEPT ![t] = Pop(@)]
            /\ ret' = [ret EXCEPT ![t] = RetErr("http", Top(t).err)]
            /\ sent' = sent
  /\ UNCHANGED <<authMounted, tokenStore, issued, serverCredits, authState, creditState, hookState,
                 refreshBy, hist>>

\* clearSessionToken: a failing delete is logged and swallowed
clearSessionToken(delOk) == IF delOk THEN NoToken ELSE tokenStore

\* the interceptor after refreshToken() threw: clear the token, rethrow
InterceptorRefreshFailed(t) ==
  /\ Resuming(t, "http") /\ Top(t).phase = "refreshing"
  /\ ret[t].k = "err"
  /\ \E delOk \in BOOLEAN : tokenStore' = clearSessionToken(delOk)
  /\ stack' = [stack EXCEPT ![t] = Pop(@)]
  /\ ret' = [ret EXCEPT ![t] = RetErr("http", ret[t].err)]
  /\ hist' = [hist EXCEPT ![t].refreshFailed = IF Top(t).kind # "refresh" THEN Top(t).kind ELSE @]
  /\ UNCHANGED <<authMounted, issued, serverCredits, authState, creditState, hookState,
                 sent, refreshBy>>

\* return this.client.request(originalRequest): the outcome of the resent
\* request is the outcome of the original one
RetryReturn(t) ==
  /\ Resuming(t, "http") /\ Top(t).phase = "retrying"
  /\ stack' = [stack EXCEPT ![t] = Pop(@)]
  /\ ret' = [ret EXCEPT ![t].from = "http"]
  /\ UNCHANGED <<authMounted, tokenStore, issued, serverCredits, authState, creditState, hookState,
                 sent, refreshBy, hist>>

\* ------------------------------------------------------------- api methods
Unwrapped(t) == ret[t].k = "ok" /\ ret[t].body.success /\ ret[t].body.hasData

\* if (response.data.success && response.data.data) ... else throw new Error
ApiThrown(t) ==
  IF ret[t].k = "err" THEN ret[t].err
  ELSE PlainError(IF ret[t].body.msg # "" THEN ret[t].body.msg ELSE DefaultMsg(Top(t).kind))

\* a plausible slip: the failure is logged and swallowed, as in clearSessionToken
storeSessionTokenSwallows(writeOk) == FALSE
\* does a failing SecureStore.setItemAsync make storeSessionToken throw
storeSessionTokenThrows(writeOk) == ~writeOk

\* signInWithApple / refreshToken: store the returned token, then return
ApiTokenReturn(t) ==
  /\ Resuming(t, "api") /\ Top(t).kind \in {"signin", "refresh"}
  /\ IF Unwrapped(t)
     THEN \E writeOk \in BOOLEAN :
            /\ tokenStore' = IF writeOk THEN ret[t].body.token ELSE tokenStore
            /\ ret' = [ret EXCEPT ![t] =
                 IF storeSessionTokenThrows(writeOk)
                 THEN RetErr(ApiName(Top(t).kind), EStore)
                 ELSE RetOk(ApiName(Top(t).kind), ret[t].body)]
     ELSE /\ tokenStore' = tokenStore
          /\ ret' = [ret EXCEPT ![t] = RetErr(ApiName(Top(t).kind), ApiThrown(t))]
  /\ stack' = [stack EXCEPT ![t] = Pop(@)]
  /\ UNCHANGED <<authMounted, issued, serverCredits, authState, creditState, hookState,
                 sent, refreshBy, hist>>

\* every other api method: unwrap the envelope or throw
ApiDataReturn(t) ==
  /\ Resuming(t, "api") /\ Top(t).kind \notin {"signin", "refresh"}
  /\ ret' = [ret EXCEPT ![t] =
       IF Unwrapped(t) THEN RetOk(ApiName(Top(t).kind), ret[t].body)
       ELSE RetErr(ApiName(Top(t).kind), ApiThrown(t))]
  /\ stack' = [stack EXCEPT ![t] = Pop(@)]
  /\ UNCHANGED <<authMounted, tokenStore, issued, serverCredits, authState, creditState, hookState,
                 sent, refreshBy, hist>>

\* ------------------------------------------------------------ AuthProvider
Begin(t, op, arg, kinds) ==
  /\ sent' = [sent EXCEPT ![t] = [k \in Kinds |-> IF k \in kinds THEN 1 ELSE 0]]
  /\ refreshBy' = [refreshBy EXCEPT ![t] = ZeroCount]
  /\ hist' = [u \in Tasks |->
       IF u = t
       THEN [NoHist EXCEPT !.op = op, !.arg = arg, !.store0 = tokenStore,
                           !.user0 = authState.user, !.credits0 = creditState.photoCredits,
                           !.latest = TRUE]
       ELSE [hist[u] EXCEPT !.latest = FALSE]]

\* signIn up to the await of apiService.signInWithApple; the credential is
\* what AppleAuthentication.signInAsync resolved with
signIn(t) ==
  /\ Idle(t)
  /\ \E cred \in {"valid", "malformed", "missing"}, readOk \in BOOLEAN :
       /\ stack' = [stack EXCEPT ![t] =
            Call(<<Frame("signIn", "", "await", cred, NoToken, NoErr)>>, "signin", cred, readOk)]
       /\ Begin(t, "signIn", cred, {"signin"})
  /\ authState' = authReducer(authState, AuthAction("SIGN_IN_START", NoUser, NoToken, "", FALSE))
  /\ UNCHANGED <<authMounted, tokenStore, issued, serverCredits, creditState, hookState, ret>>

Finish(t, ok, msg) ==
  /\ stack' = [stack EXCEPT ![t] = <<>>]
  /\ ret' = [ret EXCEPT ![t] = NoRet]
  /\ hist' = [hist EXCEPT ![t].done = TRUE, ![t].ok = ok, ![t].msg = msg]

\* a plausible slip: the catch block only stops the spinner
SignInFailureIgnored(msg) == AuthAction("SET_LOADING", NoUser, NoToken, "", FALSE)
\* the catch block of signIn: dispatch SIGN_IN_ERROR with the message
SignInFailureAction(msg) == AuthAction("SIGN_IN_ERROR", NoUser, NoToken, msg, FALSE)

signInResume(t) ==
  /\ Resuming(t, "signIn")
  /\ authState' = authReducer(authState,
       IF ret[t].k = "ok"
       THEN AuthAction("SIGN_IN_SUCCESS", TheUser, ret[t].body.token, "", FALSE)
       ELSE SignInFailureAction(handleApiError(ret[t].err)))
  /\ IF Len(stack[t]) = 1
     THEN Finish(t, ret[t].k = "ok", IF ret[t].k = "ok" THEN "" ELSE handleApiError(ret[t].err))
     ELSE /\ stack' = [stack EXCEPT ![t] = Pop(@)]
          /\ ret' = [ret EXCEPT ![t] = RetOk("signIn", NoBody)]
          /\ hist' = [hist EXCEPT ![t].ok = (ret[t].k = "ok"),
                                   ![t].msg = IF ret[t].k = "ok" THEN ""
                                              ELSE handleApiError(ret[t].err)]
  /\ UNCHANGED <<authMounted, tokenStore, issued, serverCredits, creditState, hookState, sent, refreshBy>>

\* AppleAuthentication.signInAsync rejects when the user dismisses the sheet
ECanceled == PlainError("The user canceled the sign-in flow.")
AlertUnavailable == "Apple Sign-In Unavailable"
AlertSignInFailed == "Sign-In Failed"

\* handleAppleSignIn of the sign-in screen up to the first network await:
\* the availability check, then signIn() (SIGN_IN_START, signInAsync, the
\* post of the credential); a dismissed sheet ends signIn in its catch block
handleAppleSignIn(t) ==
  /\ Idle(t)
  /\ \E isAvailable \in BOOLEAN, cred \in {"valid", "malformed", "missing", "canceled"},
        readOk \in BOOLEAN :
       LET handler == Frame("handleAppleSignIn", "", "await", cred, NoToken, NoErr)
           started == authReducer(authState, AuthAction("SIGN_IN_START", NoUser, NoToken, "", FALSE))
       IN
       IF ~isAvailable
       THEN /\ Begin(t, "handleAppleSignIn", "unavailable", {})
            /\ stack' = [stack EXCEPT ![t] = <<[handler EXCEPT !.phase = "alert"]>>]
            /\ ret' = [ret EXCEPT ![t] = RetOk("handleAppleSignIn", NoBody)]
            /\ authState' = authState
       ELSE IF cred = "canceled"
       THEN /\ Begin(t, "handleAppleSignIn", cred, {})
            /\ stack' = [stack EXCEPT ![t] = <<handler>>]
            /\ ret' = [ret EXCEPT ![t] = RetOk("signIn", NoBody)]
            /\ authState' = authReducer(started, SignInFailureAction(handleApiError(ECanceled)))
       ELSE /\ Begin(t, "handleAppleSignIn", cred, {"signin"})
            /\ stack' = [stack EXCEPT ![t] =
                 Call(<<handler, Frame("signIn", "", "await", cred, NoToken, NoErr)>>,
                      "signin", cred, readOk)]
            /\ ret' = ret
            /\ authState' = started
  /\ UNCHANGED <<authMounted, tokenStore, issued, serverCredits, creditState, hookState>>

\* handleAppleSignIn after await signIn(): router.replace("/(app)"), or the
\* catch block if signIn() threw; the unavailable branch shows its alert
handleAppleSignInResume(t) ==
  /\ Resuming(t, "handleAppleSignIn")
  /\ stack' = [stack EXCEPT ![t] = <<>>]
  /\ ret' = [ret EXCEPT ![t] = NoRet]
  /\ hist' = [hist EXCEPT ![t].done = TRUE,
                           ![t].replaced = (Top(t).phase = "await" /\ ret[t].k = "ok"),
                           ![t].alert = IF Top(t).phase = "alert" THEN AlertUnavailable
                                        ELSE IF ret[t].k = "err" THEN AlertSignInFailed ELSE ""]
  /\ UNCHANGED <<authMounted, tokenStore, issued, serverCredits, authState, creditState, hookState,
                 sent, refreshBy>>

\* AuthProvider.refreshToken up to the await of apiService.refreshToken
authRefreshToken(t) ==
  /\ Idle(t)
  /\ \E readOk \in BOOLEAN :
       stack' = [stack EXCEPT ![t] =
         Call(<<Frame("authRefreshToken", "", "await", "", NoToken, NoErr)>>, "refresh", "", readOk)]
  /\ Begin(t, "authRefreshToken", "", {"refresh"})
  /\ UNCHANGED <<authMounted, tokenStore, issued, serverCredits, authState, creditState, hookState, ret>>

authRefreshTokenResume(t) ==
  /\ Resuming(t, "authRefreshToken")
  /\ authState' = authReducer(authState,
       IF ret[t].k = "ok"
       THEN AuthAction("SIGN_IN_SUCCESS", TheUser, ret[t].body.token, "", FALSE)
       ELSE AuthAction("SIGN_OUT", NoUser, NoToken, "", FALSE))
  /\ Finish(t, ret[t].k = "ok", "")
  /\ UNCHANGED <<authMounted, tokenStore, issued, serverCredits, creditState, hookState, sent, refreshBy>>


\* a plausible slip: SIGN_OUT is dispatched only when the token was cleared
signOutDispatchesIfCleared(delOk) == delOk
\* does signOut dispatch SIGN_OUT after apiService.signOut() with this outcome
\* of the delete (the try block and the catch block both dispatch it)
signOutDispatches(delOk) == TRUE

\* AuthProvider.signOut: apiService.signOut only clears the stored token
signOut(t) ==
  /\ Idle(t)
  /\ \E delOk \in BOOLEAN :
       /\ tokenStore' = clearSessionToken(delOk)
       /\ authState' = IF signOutDispatches(delOk)
                       THEN authReducer(authState, AuthAction("SIGN_OUT", NoUser, NoToken, "", FALSE))
                       ELSE authState
       /\ hist' = [hist EXCEPT ![t] = [NoHist EXCEPT !.op = "signOut", !.done = TRUE,
                                        !.ok = signOutDispatches(delOk),
                                        !.store0 = tokenStore, !.user0 = authState.user]]
  /\ sent' = [sent EXCEPT ![t] = ZeroCount]
  /\ refreshBy' = [refreshBy EXCEPT ![t] = ZeroCount]
  /\ UNCHANGED <<authMounted, issued, serverCredits, creditState, hookState, stack, ret>>

\* checkStoredAuth (mount effect) up to the await of apiService.validateToken
checkStoredAuth(t) ==
  /\ Idle(t)
  /\ ~authMounted
  /\ authMounted' = TRUE
  /\ \E readOk \in BOOLEAN :
       stack' = [stack EXCEPT ![t] =
         Call(<<Frame("checkStoredAuth", "", "await", "", NoToken, NoErr)>>, "validate", "", readOk)]
  /\ Begin(t, "checkStoredAuth", "", {"validate"})
  /\ UNCHANGED <<tokenStore, issued, serverCredits, authState, creditState, hookState, ret>>

checkStoredAuthResume(t) ==
  /\ Resuming(t, "checkStoredAuth")
  /\ authState' = authReducer(authState,
       IF ret[t].k = "ok" /\ ret[t].body.valid
       THEN AuthAction("SIGN_IN_SUCCESS", TheUser, EmptyToken, "", FALSE)
       ELSE AuthAction("SET_LOADING", NoUser, NoToken, "", FALSE))
  /\ Finish(t, ret[t].k = "ok" /\ ret[t].body.valid, "")
  /\ UNCHANGED <<authMounted, tokenStore, issued, serverCredits, creditState, hookState, sent, refreshBy>>

\* ---------------------------------------------------------- CreditProvider
CreditAction(type, credits, tier, flag, msg) ==
  [type |-> type, credits |-> credits, tier |-> tier, flag |-> flag, msg |-> msg]

\* action.payload.<name> of a purchase response: undefined when absent
Property(payload, name) == IF name \in DOMAIN payload THEN Num(payload[name]) ELSE Undefined

\* the data of a purchase response (CreditPurchaseResponse)
PurchasePayload(body) == [creditsAdded |-> body.credits]

\* the property of the purchase response that ADD_PURCHASE adds to the balance
AddPurchaseField == "creditsAwarded"

\* a plausible slip: the fetched balance is charged the optimistic credit again
SetBalanceRedecrements(state, action) == JsMax0Minus1(action.credits)
\* SET_BALANCE: photoCredits: action.payload.photoCredits
SetBalanceCredits(state, action) == action.credits

\* a plausible slip: storing a list resets the balance to its initial value
ListActionResetsCredits(state) == Num(0)
\* SET_PACKAGES / SET_PURCHASE_HISTORY: ...state keeps photoCredits
ListActionCredits(state) == state.photoCredits

\* the lists availablePackages and purchaseHistory are left out of the state
creditReducer(state, action) ==
  CASE action.type = "SET_BALANCE" ->
         [state EXCEPT !.photoCredits = SetBalanceCredits(state, action), !.subscriptionTier = action.tier,
                       !.isLoading = FALSE, !.error = NoError]
    [] action.type \in {"SET_PACKAGES", "SET_PURCHASE_HISTORY"} ->
         [state EXCEPT !.photoCredits = ListActionCredits(state),
                       !.isLoading = FALSE, !.error = NoError]
    [] action.type = "SET_LOADING" ->
         [state EXCEPT !.isLoading = action.flag, !.error = NoError]
    [] action.type = "SET_ERROR" ->
         [state EXCEPT !.isLoading = FALSE, !.error = action.msg]
    [] action.type = "CONSUME_CREDIT" ->
         [state EXCEPT !.photoCredits = JsMax0Minus1(state.photoCredits)]
    [] action.type = "ADD_PURCHASE" ->
         [state EXCEPT !.photoCredits = JsAdd(state.photoCredits, action.credits)]
    [] OTHER -> state

SetLoading == CreditAction("SET_LOADING", Num(0), "", TRUE, "")

\* refreshBalance up to the await of apiService.getCreditBalance
refreshBalance(t) ==
  /\ Idle(t)
  /\ creditState' = creditReducer(creditState, SetLoading)
  /\ \E readOk \in BOOLEAN :
       stack' = [stack EXCEPT ![t] =
         Call(<<Frame("refreshBalance", "", "await", "", NoToken, NoErr)>>, "balance", "", readOk)]
  /\ Begin(t, "refreshBalance", "", {"balance"})
  /\ UNCHANGED <<authMounted, tokenStore, issued, serverCredits, authState, hookState, ret>>

\* refreshBalance after the await: SET_BALANCE or SET_ERROR; it never throws
refreshBalanceResume(t) ==
  /\ Resuming(t, "refreshBalance")
  /\ creditState' = creditReducer(creditState,
       IF ret[t].k = "ok"
       THEN CreditAction("SET_BALANCE", Num(ret[t].body.credits), "none", FALSE, "")
       ELSE CreditAction("SET_ERROR", Num(0), "", FALSE, handleApiError(ret[t].err)))
  /\ IF Len(stack[t]) = 1
     THEN /\ stack' = [stack EXCEPT ![t] = <<>>]
          /\ ret' = [ret EXCEPT ![t] = NoRet]
          /\ hist' = [hist EXCEPT ![t].done = TRUE, ![t].ok = (ret[t].k = "ok"),
                                   ![t].msg = IF ret[t].k = "ok" THEN ""
                                              ELSE handleApiError(ret[t].err),
                                   ![t].fetched = IF ret[t].k = "ok" THEN Num(ret[t].body.credits)
                                                  ELSE @]
     ELSE /\ stack' = [stack EXCEPT ![t] = Pop(@)]
          /\ ret' = [ret EXCEPT ![t] = RetOk("refreshBalance", NoBody)]
          /\ hist' = [hist EXCEPT ![t].resyncOk = (ret[t].k = "ok")]
  /\ UNCHANGED <<authMounted, tokenStore, issued, serverCredits, authState, hookState, sent, refreshBy>>

\* refreshPackages / getPurchaseHistory up to the await of the api method
fetchList(t, f, kind) ==
  /\ Idle(t)
  /\ creditState' = creditReducer(creditState, SetLoading)
  /\ \E readOk \in BOOLEAN :
       stack' = [stack EXCEPT ![t] =
         Call(<<Frame(f, "", "await", "", NoToken, NoErr)>>, kind, "", readOk)]
  /\ Begin(t, f, "", {kind})
  /\ UNCHANGED <<authMounted, tokenStore, issued, serverCredits, authState, hookState, ret>>

\* after the await: store the list, or SET_ERROR
fetchListResume(t, f, type) ==
  /\ Resuming(t, f)
  /\ creditState' = creditReducer(creditState,
       IF ret[t].k = "ok"
       THEN CreditAction(type, Num(0), "", FALSE, "")
       ELSE CreditAction("SET_ERROR", Num(0), "", FALSE, handleApiError(ret[t].err)))
  /\ Finish(t, ret[t].k = "ok", IF ret[t].k = "ok" THEN "" ELSE handleApiError(ret[t].err))
  /\ UNCHANGED <<authMounted, tokenStore, issued, serverCredits, authState, hookState, sent, refreshBy>>

refreshPackages(t) == fetchList(t, "refreshPackages", "packages")
refreshPackagesResume(t) == fetchListResume(t, "refreshPackages", "SET_PACKAGES")
getPurchaseHistory(t) == fetchList(t, "getPurchaseHistory", "history")
getPurchaseHistoryResume(t) == fetchListResume(t, "getPurchaseHistory", "SET_PURCHASE_HISTORY")

\* a synchronous operation of the presentation layer: the operations that
\* finished before it are no longer the last ones
Forget ==
  /\ hist' = [t \in Tasks |-> IF Idle(t) THEN NoHist ELSE hist[t]]
  /\ sent' = [t \in Tasks |-> IF Idle(t) THEN ZeroCount ELSE sent[t]]
  /\ refreshBy' = [t \in Tasks |-> IF Idle(t) THEN ZeroCount ELSE refreshBy[t]]

\* consumeCredit: the optimistic decrement
consumeCredit ==
  /\ creditState' = creditReducer(creditState, CreditAction("CONSUME_CREDIT", Num(0), "", FALSE, ""))
  /\ creditState' # creditState
  /\ Forget
  /\ UNCHANGED <<authMounted, tokenStore, issued, serverCredits, authState, hookState, stack, ret>>

\* the server's balance of the account falls without this client taking part
\* (the client learns of it by a fetch or by INSUFFICIENT_CREDITS)
serverBalanceDrops ==
  /\ serverCredits > 0
  /\ serverCredits' = serverCredits - 1
  /\ Forget
  /\ UNCHANGED <<authMounted, tokenStore, issued, authState, creditState, hookState, stack, ret>>

\* MockStoreKit.requestPurchase resolves with success: true
MockStoreKitResults == {TRUE}

\* purchaseCredits up to the await of apiService.purchaseCredits
purchaseCredits(t) ==
  /\ Idle(t)
  /\ creditState' = creditReducer(creditState, SetLoading)
  /\ \E success \in MockStoreKitResults, readOk \in BOOLEAN :
       IF success
       THEN /\ stack' = [stack EXCEPT ![t] =
                 Call(<<Frame("purchaseCredits", "", "await", "", NoToken, NoErr)>>,
                      "purchase", "", readOk)]
            /\ Begin(t, "purchaseCredits", "", {"purchase"})
       ELSE /\ stack' = stack
            /\ sent' = [sent EXCEPT ![t] = ZeroCount]
            /\ refreshBy' = [refreshBy EXCEPT ![t] = ZeroCount]
            /\ hist' = [hist EXCEPT ![t] = [NoHist EXCEPT !.op = "purchaseCredits", !.done = TRUE]]
  /\ UNCHANGED <<authMounted, tokenStore, issued, serverCredits, authState, hookState, ret>>

purchaseCreditsResume(t) ==
  /\ Resuming(t, "purchaseCredits")
  /\ creditState' = creditReducer(creditState,
       IF ret[t].k = "ok"
       THEN CreditAction("ADD_PURCHASE",
                         Property(PurchasePayload(ret[t].body), AddPurchaseField), "", FALSE, "")
       ELSE CreditAction("SET_ERROR", Num(0), "", FALSE, handleApiError(ret[t].err)))
  /\ stack' = [stack EXCEPT ![t] = Pop(@)]
  /\ ret' = [ret EXCEPT ![t] =
       IF Len(stack[t]) = 1 THEN NoRet
       ELSE RetOk("purchaseCredits", [NoBody EXCEPT !.success = (ret[t].k = "ok")])]
  /\ hist' = [hist EXCEPT ![t].done = (Len(stack[t]) = 1), ![t].ok = (ret[t].k = "ok"),
                           ![t].msg = IF ret[t].k = "ok" THEN "" ELSE handleApiError(ret[t].err),
                           ![t].fetched = IF ret[t].k = "ok" THEN Num(ret[t].body.credits) ELSE @]
  /\ UNCHANGED <<authMounted, tokenStore, issued, serverCredits, authState, hookState, sent, refreshBy>>

AlertPurchaseSuccessful == "Purchase Successful!"

\* handlePurchase of the purchase screen up to the first network await:
\* purchaseCredits(packageId) (SET_LOADING, the store purchase, the post of
\* the receipt); a declined store purchase makes purchaseCredits return false
handlePurchase(t) ==
  /\ Idle(t)
  /\ creditState' = creditReducer(creditState, SetLoading)
  /\ \E success \in MockStoreKitResults, readOk \in BOOLEAN :
       LET handler == Frame("handlePurchase", "", "await", "", NoToken, NoErr) IN
       IF success
       THEN /\ Begin(t, "handlePurchase", "", {"purchase"})
            /\ stack' = [stack EXCEPT ![t] =
                 Call(<<handler, Frame("purchaseCredits", "", "await", "", NoToken, NoErr)>>,
                      "purchase", "", readOk)]
            /\ ret' = ret
       ELSE /\ Begin(t, "handlePurchase", "declined", {})
            /\ stack' = [stack EXCEPT ![t] = <<handler>>]
            /\ ret' = [ret EXCEPT ![t] = RetOk("purchaseCredits", NoBody)]
  /\ UNCHANGED <<authMounted, tokenStore, issued, serverCredits, authState, hookState>>

\* handlePurchase after await purchaseCredits(...): the value it resolved
\* with is not looked at; the success alert, or the catch block if it threw
handlePurchaseResume(t) ==
  /\ Resuming(t, "handlePurchase")
  /\ stack' = [stack EXCEPT ![t] = <<>>]
  /\ ret' = [ret EXCEPT ![t] = NoRet]
  /\ hist' = [hist EXCEPT ![t].done = TRUE,
                           ![t].alert = IF ret[t].k = "ok" THEN AlertPurchaseSuccessful ELSE "",
                           ![t].showError = (ret[t].k = "err")]
  /\ UNCHANGED <<authMounted, tokenStore, issued, serverCredits, authState, creditState, hookState,
                 sent, refreshBy>>


\* -------------------------------------------------------- usePhotoTransform
MsgNoImage == "No image selected. Please take or select a photo first."

\* a plausible slip: >= 0 instead of >= 1
checkCreditsNonNegative == ~creditState.photoCredits.nan /\ creditState.photoCredits.n >= 0
\* checkCredits: creditState.photoCredits >= 1
checkCredits == JsGe1(creditState.photoCredits)

\* setCurrentImage / pickPhoto / takePhoto: an image is selected or dropped
setCurrentImage ==
  /\ \E img \in BOOLEAN :
       /\ img # hookState.currentImage
       /\ hookState' = [hookState EXCEPT !.currentImage = img, !.error = NoError]
  /\ Forget
  /\ UNCHANGED <<authMounted, tokenStore, issued, serverCredits, authState, creditState,
                 stack, ret>>

\* the value transformPhoto resolves with: {success, error?}
TransformResult(success, msg) ==
  IF success THEN [success |-> TRUE] ELSE [success |-> FALSE, error |-> msg]

\* transformPhoto rejected before any request: no image, or no credit
transformPhotoRejected(t) ==
  /\ Idle(t)
  /\ ~hookState.currentImage \/ ~checkCredits
  /\ LET msg == IF ~hookState.currentImage THEN MsgNoImage ELSE MsgInsufficient IN
     /\ hookState' = [hookState EXCEPT !.error = msg]
     /\ hist' = [hist EXCEPT ![t] = [NoHist EXCEPT !.op = "transformPhoto", !.done = TRUE,
                                      !.ok = FALSE, !.msg = msg, !.store0 = tokenStore,
                                      !.result = TransformResult(FALSE, msg),
                                      !.arg = IF hookState.currentImage THEN "image" ELSE "",
                                      !.credits0 = creditState.photoCredits]]
  /\ sent' = [sent EXCEPT ![t] = ZeroCount]
  /\ refreshBy' = [refreshBy EXCEPT ![t] = ZeroCount]
  /\ UNCHANGED <<authMounted, tokenStore, issued, serverCredits, authState, creditState,
                 stack, ret>>

\* transformPhoto up to the await of apiService.transformPhoto: the
\* optimistic consumeCredit() comes before the request
transformPhoto(t) ==
  /\ Idle(t)
  /\ hookState.currentImage /\ checkCredits
  /\ hookState' = [hookState EXCEPT !.isTransforming = TRUE, !.error = NoError]
  /\ creditState' = creditReducer(creditState, CreditAction("CONSUME_CREDIT", Num(0), "", FALSE, ""))
  /\ \E readOk \in BOOLEAN :
       stack' = [stack EXCEPT ![t] =
         Call(<<Frame("transformPhoto", "", "transform", "", NoToken, NoErr)>>,
              "transform", "", readOk)]
  /\ sent' = [sent EXCEPT ![t] = [k \in Kinds |-> IF k = "transform" THEN 1 ELSE 0]]
  /\ refreshBy' = [refreshBy EXCEPT ![t] = ZeroCount]
  /\ hist' = [hist EXCEPT ![t] = [NoHist EXCEPT !.op = "transformPhoto", !.arg = "image",
                                   !.store0 = tokenStore, !.reached = TRUE,
                                   !.credits0 = creditState.photoCredits,
                                   !.optimistic = creditState'.photoCredits]]
  /\ UNCHANGED <<authMounted, tokenStore, issued, serverCredits, authState, ret>>

\* a plausible slip: the catch block does not resync
ResyncOnlyOnSuccess(settled) == settled = "ok"
\* does transformPhoto call refreshBalance() after the transform settled
\* this way (line 717 in the try block, line 731 in the catch block)
ResyncAfter(settled) == TRUE

\* the transform call settled: record the outcome, then await refreshBalance()
transformPhotoSettled(t) ==
  /\ Resuming(t, "transformPhoto") /\ Top(t).phase = "transform"
  /\ LET ok == ret[t].k = "ok"
         msg == IF ok THEN "" ELSE handleApiError(ret[t].err) IN
     /\ hookState' = [hookState EXCEPT !.isTransforming = FALSE,
                                       !.error = IF ok THEN @ ELSE msg]
     /\ IF ResyncAfter(ret[t].k)
        THEN /\ creditState' = creditReducer(creditState, SetLoading)
             /\ \E readOk \in BOOLEAN :
                  stack' = [stack EXCEPT ![t] =
                    Call(<<[Top(t) EXCEPT !.phase = "resync"],
                           Frame("refreshBalance", "", "await", "", NoToken, NoErr)>>,
                         "balance", "", readOk)]
             /\ sent' = [sent EXCEPT ![t]["balance"] = @ + 1]
             /\ hist' = [hist EXCEPT ![t].ok = ok, ![t].msg = msg, ![t].resyncs = @ + 1,
                                      ![t].refreshFailed = ""]
             /\ ret' = [ret EXCEPT ![t] = NoRet]
        ELSE /\ creditState' = creditState
             /\ stack' = [stack EXCEPT ![t] = <<>>]
             /\ ret' = [ret EXCEPT ![t] = NoRet]
             /\ sent' = sent
             /\ hist' = [hist EXCEPT ![t].ok = ok, ![t].msg = msg, ![t].done = TRUE,
                                      ![t].result = TransformResult(ok, msg)]
  /\ UNCHANGED <<authMounted, tokenStore, issued, serverCredits, authState, refreshBy>>

\* refreshBalance() returned: transformPhoto resolves
transformPhotoDone(t) ==
  /\ Resuming(t, "transformPhoto") /\ Top(t).phase = "resync"
  /\ stack' = [stack EXCEPT ![t] = <<>>]
  /\ ret' = [ret EXCEPT ![t] = NoRet]
  /\ hist' = [hist EXCEPT ![t].done = TRUE,
                           ![t].result = TransformResult(hist[t].ok, hist[t].msg)]
  /\ UNCHANGED <<authMounted, tokenStore, issued, serverCredits, authState, creditState,
                 hookState, sent, refreshBy>>

\* ------------------------------------------------------------ specification
InitAuthState == [user |-> NoUser, sessionToken |-> NoToken, isLoading |-> TRUE, error |-> NoError]
initialState == [photoCredits |-> Num(0), subscriptionTier |-> "free",
                 isLoading |-> FALSE, error |-> NoError]

Init ==
  /\ tokenStore \in {NoToken, Token(1)}
  /\ issued = IF tokenStore = NoToken THEN 0 ELSE 1
  /\ serverCredits \in 0..MaxCredits
  /\ authState = InitAuthState
  /\ creditState = initialState
  /\ hookState = [currentImage |-> FALSE, isTransforming |-> FALSE, error |-> NoError]
  /\ authMounted = FALSE
  /\ stack = [t \in Tasks |-> <<>>]
  /\ ret = [t \in Tasks |-> NoRet]
  /\ sent = [t \in Tasks |-> ZeroCount]
  /\ refreshBy = [t \in Tasks |-> ZeroCount]
  /\ hist = [t \in Tasks |-> NoHist]

\* the client, its interceptors and the api methods
StepHttp(t) ==
  \/ RespondOk(t) \/ RespondEnvelopeFail(t) \/ RespondError(t) \/ Respond401(t)
  \/ InterceptorRetry(t) \/ InterceptorRefreshFailed(t) \/ RetryReturn(t)
  \/ ApiTokenReturn(t) \/ ApiDataReturn(t)

\* a new operation runs in the first free task
FirstIdle(t) == Idle(t) /\ \A u \in Tasks : u < t => ~Idle(u)

\* the session operations of AuthProvider in a single-threaded harness: an
\* operation starts when no other is running
StartAuth ==
  \E t \in Tasks :
    /\ FirstIdle(t)
    /\ signIn(t) \/ authRefreshToken(t) \/ signOut(t) \/ checkStoredAuth(t)

NextAuth ==
  \/ AllIdle /\ StartAuth
  \/ \E t \in Tasks :
       \/ StepHttp(t)
       \/ signInResume(t) \/ authRefreshTokenResume(t) \/ checkStoredAuthResume(t)

SpecAuth == Init /\ [][NextAuth]_vars

\* the credit operations of CreditProvider and usePhotoTransform in a
\* single-threaded harness
StartCredit ==
  \/ \E t \in Tasks :
       /\ FirstIdle(t)
       /\ \/ refreshBalance(t) \/ purchaseCredits(t)
          \/ transformPhotoRejected(t) \/ transformPhoto(t)
  \/ consumeCredit
  \/ setCurrentImage
  \/ serverBalanceDrops

NextCredit ==
  \/ AllIdle /\ StartCredit
  \/ \E t \in Tasks :
       \/ StepHttp(t)
       \/ refreshBalanceResume(t) \/ purchaseCreditsResume(t)
       \/ transformPhotoSettled(t) \/ transformPhotoDone(t)

SpecCredit == Init /\ [][NextCredit]_vars


\* the operations of the credit container (CreditContextType) on their own,
\* one at a time
StartContainer ==
  \/ \E t \in Tasks :
       /\ FirstIdle(t)
       /\ \/ refreshBalance(t) \/ purchaseCredits(t)
          \/ refreshPackages(t) \/ getPurchaseHistory(t)
  \/ consumeCredit

NextContainer ==
  \/ AllIdle /\ StartContainer
  \/ \E t \in Tasks :
       \/ StepHttp(t)
       \/ refreshBalanceResume(t) \/ purchaseCreditsResume(t)
       \/ refreshPackagesResume(t) \/ getPurchaseHistoryResume(t)

SpecContainer == Init /\ [][NextContainer]_vars

\* overlapping balance fetches (the mount effect, a resync, a refresh after a
\* subscription change): a fetch may start while others are in flight, and
\* the steps of the call chains interleave freely (a pair of fetches, one
\* fetch to a task)
Fresh(t) == Idle(t) /\ hist[t].op = ""
StartOverlap ==
  \E t \in Tasks :
    /\ Fresh(t) /\ \A u \in Tasks : u < t => ~Fresh(u)
    /\ \A u, v \in Tasks : ~Fresh(u) /\ ~Fresh(v) => u = v
    /\ refreshBalance(t)

\* a refresh request of task t is outstanding
RefreshInFlight(t) == InFlight(t) /\ Top(t).kind = "refresh"

\* the request in flight in task t is the first attempt of its api call
FirstAttempt(t) ==
  /\ InFlight(t) /\ Top(t).kind # "refresh"
  /\ \A i \in 1..Len(stack[t]) : stack[t][i].phase # "retrying"

\* the server answers 401 to first attempts only here (a 401 to a refresh
\* request or to a resent request is the nested refresh of SpecCredit)
Respond401First(t) == FirstAttempt(t) /\ Respond401(t)

\* the server's balance falls while fetches may be in flight
balanceDropsInFlight ==
  /\ serverCredits > 0
  /\ serverCredits' = serverCredits - 1
  /\ UNCHANGED <<authMounted, tokenStore, issued, authState, creditState, hookState, stack, ret,
                 sent, refreshBy, hist>>

\* the continuation of task t is a microtask: between the arrival of a
\* data response (or the rejection by the interceptor) and the dispatch of
\* refreshBalance nothing is awaited but settled promises, so it runs before
\* any other response or call is handled; the SecureStore calls of the
\* interceptors and of refreshToken do yield
MicrotaskPending(t) ==
  \/ Resuming(t, "api") /\ Top(t).kind \notin {"signin", "refresh"}
  \/ Resuming(t, "refreshBalance")
\* task t may take the next step
Runnable(t) == \A u \in Tasks \ {t} : ~MicrotaskPending(u)

\* the client, its interceptors, the api methods and the continuation of
\* refreshBalance, in the order the event loop allows
OverlapStep(t) ==
  \/ Runnable(t) /\ RespondOk(t)
  \/ Runnable(t) /\ RespondEnvelopeFail(t)
  \/ Runnable(t) /\ RespondError(t)
  \/ Runnable(t) /\ Respond401First(t)
  \/ Runnable(t) /\ InterceptorRetry(t)
  \/ Runnable(t) /\ InterceptorRefreshFailed(t)
  \/ Runnable(t) /\ RetryReturn(t)
  \/ Runnable(t) /\ ApiTokenReturn(t)
  \/ Runnable(t) /\ ApiDataReturn(t)
  \/ Runnable(t) /\ refreshBalanceResume(t)

NextOverlap ==
  \/ (\A t \in Tasks : Runnable(t)) /\ StartOverlap
  \/ (\A t \in Tasks : Runnable(t)) /\ balanceDropsInFlight
  \/ \E t \in Tasks : OverlapStep(t)

SpecOverlap == Init /\ [][NextOverlap]_vars

\* a session with data calls: sign-in, sign-out and balance fetches, one
\* operation at a time
StartSession ==
  \E t \in Tasks :
    /\ FirstIdle(t)
    /\ signIn(t) \/ signOut(t) \/ refreshBalance(t)

\* the steps that need no user: responses, interceptors, continuations
SessionStep(t) == StepHttp(t) \/ signInResume(t) \/ refreshBalanceResume(t)

NextSession ==
  \/ AllIdle /\ StartSession
  \/ \E t \in Tasks : SessionStep(t)

\* every request settles (the client times out after 30000 ms) and every
\* continuation runs; the user is not obliged to start anything
SpecSession == Init /\ [][NextSession]_vars /\ \A t \in Tasks : WF_vars(SessionStep(t))

\* app start: the mount effect of AuthProvider runs checkStoredAuth once;
\* every request settles and every continuation runs
StartStep(t) == StepHttp(t) \/ checkStoredAuthResume(t)

NextStart ==
  \/ \E t \in Tasks : FirstIdle(t) /\ checkStoredAuth(t)
  \/ \E t \in Tasks : StartStep(t)

SpecStart == Init /\ [][NextStart]_vars /\ \A t \in Tasks : WF_vars(StartStep(t))

\* the sign-in screen and the purchase screen: the user presses a button
\* when nothing else is running
StartScreens ==
  \E t \in Tasks :
    /\ FirstIdle(t)
    /\ handleAppleSignIn(t) \/ handlePurchase(t)

NextScreens ==
  \/ AllIdle /\ StartScreens
  \/ \E t \in Tasks :
       \/ StepHttp(t)
       \/ signInResume(t) \/ handleAppleSignInResume(t)
       \/ purchaseCreditsResume(t) \/ handlePurchaseResume(t)

SpecScreens == Init /\ [][NextScreens]_vars

\* handleApiError on its own: any error a catch block can hold.  The codes are
\* those of API_ERROR_CODES and a missing code; the server's message and
\* error.message are present or empty
API_ERROR_CODES ==
  {"AUTHENTICATION_REQUIRED", "INVALID_TOKEN", "ACCESS_DENIED", "VALIDATION_ERROR", "NO_FILE",
   "INVALID_IMAGE", "INSUFFICIENT_CREDITS", "TRANSFORMATION_ERROR", "PURCHASE_ERROR",
   "SUBSCRIPTION_ERROR", "RATE_LIMITED", "SERVER_ERROR", "SERVICE_UNAVAILABLE"}
ServerMessages == {"", "Message from the server"}
ErrorInputs ==
  {[status |-> 400, hasBody |-> TRUE, code |-> c, smsg |-> m, message |-> x, counts |-> FALSE] :
     c \in API_ERROR_CODES \cup {""}, m \in ServerMessages, x \in {"", AxiosMsg}}
  \cup {PlainError(x) : x \in {"", AxiosMsg, "Sign-in failed"}}
  \cup {E401, EValidation, EInsufficient, EServer, ETimeout, EStore}

InitErrors ==
  /\ tokenStore \in {NoToken, Token(1)}
  /\ issued = IF tokenStore = NoToken THEN 0 ELSE 1
  /\ serverCredits \in 0..MaxCredits
  /\ authState = InitAuthState
  /\ creditState = initialState
  /\ hookState = [currentImage |-> FALSE, isTransforming |-> FALSE, error |-> NoError]
  /\ authMounted = FALSE
  /\ stack = [t \in Tasks |-> <<>>]
  /\ \E e \in ErrorInputs :
       ret = [t \in Tasks |-> IF t = 1 THEN RetErr("catch", e) ELSE NoRet]
  /\ sent = [t \in Tasks |-> ZeroCount]
  /\ refreshBy = [t \in Tasks |-> ZeroCount]
  /\ hist = [t \in Tasks |-> IF t = 1 THEN [NoHist EXCEPT !.op = "handleApiError"] ELSE NoHist]

\* const errorMessage = handleApiError(error) in a catch block
handleApiErrorCall(t) ==
  /\ ret[t].k = "err" /\ ret[t].from = "catch" /\ ~hist[t].done
  /\ hist' = [hist EXCEPT ![t].msg = handleApiError(ret[t].err), ![t].done = TRUE]
  /\ UNCHANGED <<tokenStore, issued, serverCredits, authState, creditState, hookState,
                 authMounted, stack, ret, sent, refreshBy>>

NextErrors == \E t \in Tasks : handleApiErrorCall(t)

SpecErrors == InitErrors /\ [][NextErrors]_vars

\* ------------------------------------------------------------------ claims
Original(t, k) == hist[t].op # "" /\ k # "refresh"

\* C1: a request other than the refresh call that is answered 401 causes one
\* refresh attempt and is resent once; a 401 to the resent request causes no
\* second refresh attempt and no second resend.
C1_SingleRefreshSingleRetry ==
  \A t \in Tasks : \A k \in Kinds :
    Original(t, k) => refreshBy[t][k] <= 1 /\ sent[t][k] <= 2

\* C2: once a refresh request has been answered 401 the operation sends no
\* further refresh request (the number of refresh requests does not grow with
\* the number of 401 answers), and an explicit session refresh that met a 401
\* ends with the stored token cleared and the session signed out.
Refresh401(t) == refreshBy[t]["refresh"] >= 1
C2_RefreshTerminates ==
  \A t \in Tasks :
    Refresh401(t) =>
      /\ sent[t]["refresh"] <= 1
      /\ hist[t].done /\ hist[t].op = "authRefreshToken" =>
           tokenStore = NoToken /\ authState.user = NoUser

\* C3: the response interceptor never calls refreshToken() for a 401 on a
\* refresh request: no refresh request is ever suspended in the interceptor
\* waiting for another refresh.
C3_RefreshExcluded ==
  \A t \in Tasks : \A i \in 1..Len(stack[t]) :
    ~(stack[t][i].f = "http" /\ stack[t][i].kind = "refresh"
      /\ stack[t][i].phase = "refreshing")


\* C4: CreditState.photoCredits is a non-negative integer in every reachable
\* state of the credit container.
C4_NonNegativeInteger ==
  ~creditState.photoCredits.nan /\ creditState.photoCredits.n >= 0

Transforming(t) == hist[t].op = "transformPhoto" /\ hist[t].reached
\* the transform call of task t has settled (transformPhoto went on to the resync)
Settled(t) == hist[t].done \/ (~Idle(t) /\ stack[t][1].phase = "resync")

\* C5: a transformPhoto invocation that reaches the network calls
\* refreshBalance() exactly once, after the transform call has settled and
\* for every outcome of it: not before, never zero times, never twice.
C5_ExactlyOneResync ==
  \A t \in Tasks :
    Transforming(t) =>
      /\ hist[t].resyncs = (IF Settled(t) THEN 1 ELSE 0)
      /\ sent[t]["balance"] >= hist[t].resyncs
C5_Witness ==
  \E t \in Tasks :
    /\ Transforming(t) /\ hist[t].done /\ ~hist[t].ok
    /\ hist[t].resyncs = 1 /\ sent[t]["balance"] = 1

\* C6 as stated: after transformPhoto has returned, photoCredits equals the
\* server's balance, whatever the outcome of the transform and of the resync.
C6_ServerTruthAlways ==
  \A t \in Tasks :
    Transforming(t) /\ hist[t].done => creditState.photoCredits = Num(serverCredits)

\* C6 amended: after transformPhoto has returned, photoCredits equals the
\* server's balance if the resync fetch succeeded; if the resync fetch failed
\* the optimistic value stays and CreditState.error is set.
C6_ServerTruthAfterSuccessfulResync ==
  \A t \in Tasks :
    Transforming(t) /\ hist[t].done =>
      IF hist[t].resyncOk
      THEN creditState.photoCredits = Num(serverCredits)
      ELSE creditState.photoCredits = hist[t].optimistic /\ creditState.error # NoError
C6_Witness ==
  \E t \in Tasks :
    /\ Transforming(t) /\ hist[t].done /\ ~hist[t].ok /\ hist[t].resyncOk
    /\ hist[t].optimistic # creditState.photoCredits
    /\ creditState.photoCredits = Num(serverCredits)

NoRequestSent(t) == \A k \in Kinds : sent[t][k] = 0
ZeroBalanceCall(t) ==
  hist[t].op = "transformPhoto" /\ hist[t].arg = "image" /\ hist[t].credits0 = Num(0)

C8_OptimisticThenFinal ==
  \A t \in Tasks :
    Transforming(t) /\ hist[t].credits0 = Num(1) =>
      /\ ~Settled(t) => creditState.photoCredits = Num(0)
      /\ hist[t].done /\ hist[t].ok /\ hist[t].resyncOk /\ serverCredits = 0 =>
           /\ creditState.photoCredits = Num(0)
           /\ ~creditState.isLoading /\ creditState.error = NoError
           /\ hist[t].result = [success |-> TRUE]
C8_Witness ==
  \E t \in Tasks :
    /\ Transforming(t) /\ hist[t].credits0 = Num(1)
    /\ hist[t].done /\ hist[t].ok /\ hist[t].resyncOk /\ serverCredits = 0
    /\ creditState.photoCredits = Num(0)

\* C9: in the single-threaded harness, when signInWithApple or refreshToken
\* returns a value the token store holds exactly the sessionToken of that
\* value; a failed write makes the method throw instead.
TokenReturned(t) ==
  ret[t].k = "ok" /\ ret[t].from \in {"signInWithApple", "refreshToken"}
C9_StoredTokenIsReturnedToken ==
  \A t \in Tasks : TokenReturned(t) => tokenStore = ret[t].body.token
C9_Witness ==
  \E t \in Tasks :
    /\ TokenReturned(t) /\ ret[t].from = "refreshToken"
    /\ hist[t].store0 = Token(1) /\ tokenStore = Token(2)

\* C10: a sign-in attempt from SignedOut whose malformed or missing identity
\* assertion the server rejects as invalid (no 401 on the way) ends with
\* AuthState signed out, not loading, error set, and the token store as it
\* was before the attempt.
BadSignIn(t) ==
  /\ hist[t].op = "signIn" /\ hist[t].arg \in {"malformed", "missing"}
  /\ hist[t].user0 = NoUser /\ hist[t].done
  /\ refreshBy[t]["signin"] = 0
SignedOut ==
  /\ authState.user = NoUser /\ authState.sessionToken = NoToken
  /\ ~authState.isLoading /\ authState.error = NoError

\* C11: when signOut has completed, AuthState is SignedOut (no user, no
\* session token, not loading, no error) and signOut has not raised, whatever
\* the AuthState before it and whether or not the delete of the stored token
\* failed.
C11_SignOutAlwaysSignsOut ==
  \A t \in Tasks :
    hist[t].op = "signOut" /\ hist[t].done => SignedOut /\ hist[t].ok
C11_Witness ==
  \E t \in Tasks :
    /\ hist[t].op = "signOut" /\ hist[t].done /\ hist[t].user0 = TheUser
    /\ hist[t].store0 = Token(2) /\ tokenStore = Token(2)
    /\ SignedOut

\* C12: in every reachable AuthState that is not loading, user is present if
\* and only if sessionToken is a real token (neither null nor the empty
\* string).
C12_UserIffToken ==
  ~authState.isLoading => (authState.user # NoUser <=> IsTruthy(authState.sessionToken))

\* C13: every request on the wire, resent and refresh requests included,
\* carries as bearer exactly the token its request interceptor read from the
\* token store when it was sent, and no bearer when that read found the store
\* empty or failed.
C13_BearerIsTokenReadAtSend ==
  \A t \in Tasks : InFlight(t) => Top(t).hdr = Top(t).seen

\* C14: once the refresh that the interceptor started for a 401 on a request
\* has failed, the token store is empty and that request has been sent once
\* only.
C14_FailedRefreshClearsNoResend ==
  \A t \in Tasks :
    hist[t].refreshFailed # "" =>
      /\ tokenStore = NoToken
      /\ sent[t][hist[t].refreshFailed] = 1

\* C15: when the server has reported INSUFFICIENT_CREDITS for the transform
\* call, in a non-2xx response or in a 2xx envelope with success false, the
\* error apiService.transformPhoto throws carries that code (which tells it
\* from the generic transformation error) and the required and available
\* credit counts.
TransformThrown(t) == ret[t].k = "err" /\ ret[t].from = "transformPhoto"
C15_InsufficientCreditsErrorThrown ==
  \A t \in Tasks :
    TransformThrown(t) /\ hist[t].serverCode = "INSUFFICIENT_CREDITS" =>
      ret[t].err.code = "INSUFFICIENT_CREDITS" /\ ret[t].err.counts

Handled(t) == hist[t].op = "handleApiError" /\ hist[t].done
ServerMessage(e) == IF e.hasBody THEN e.smsg ELSE ""
MappedCodes ==
  {"INSUFFICIENT_CREDITS", "INVALID_IMAGE", "TRANSFORMATION_ERROR", "AUTHENTICATION_REQUIRED",
   "INVALID_TOKEN", "RATE_LIMITED", "SERVICE_UNAVAILABLE"}

\* C16 as stated: the message handleApiError returns is never empty and is
\* the server's message whenever the server provided one, whatever the code.
C16_ServerMessageFirst ==
  \A t \in Tasks :
    Handled(t) =>
      /\ hist[t].msg # ""
      /\ ServerMessage(ret[t].err) # "" => hist[t].msg = ServerMessage(ret[t].err)

\* C16 amended: the message is never empty; for the seven codes handleApiError
\* knows it is a fixed client text that does not depend on the server's
\* message; for every other code it is the server's message when there is
\* one and the generic text otherwise; for an error without a response body it
\* is error.message, or the network text when that is empty.
C16_MappedCodesOverrideServerMessage ==
  \A t \in Tasks :
    Handled(t) =>
      LET e == ret[t].err
          msg == hist[t].msg IN
      /\ msg # ""
      /\ e.hasBody /\ e.code \in MappedCodes =>
           /\ msg = handleApiError([e EXCEPT !.smsg = ""])
           /\ msg \notin ServerMessages
      /\ e.hasBody /\ e.code \notin MappedCodes =>
           msg = IF e.smsg # "" THEN e.smsg ELSE "Something went wrong. Please try again."
      /\ ~e.hasBody =>
           msg = IF e.message # "" THEN e.message
                 ELSE "Network error. Please check your connection."
C16_Witness ==
  \E t \in Tasks :
    /\ Handled(t) /\ ret[t].err.code = "INSUFFICIENT_CREDITS"
    /\ ret[t].err.smsg = "Message from the server"
    /\ hist[t].msg = MsgInsufficient

BalanceChanges == creditState'.photoCredits # creditState.photoCredits
\* SET_BALANCE after a fetch that succeeded (a plain fetch or the resync)
BalanceFetched ==
  \E t \in Tasks :
    /\ Resuming(t, "refreshBalance") /\ ret[t].k = "ok"
    /\ creditState'.photoCredits = Num(ret[t].body.credits)
\* CONSUME_CREDIT (consumeCredit() of the container, called at transform start)
Decremented ==
  AllIdle /\ creditState'.photoCredits = JsMax0Minus1(creditState.photoCredits)
\* ADD_PURCHASE after a purchase that succeeded
PurchaseAdded ==
  \E t \in Tasks :
    /\ Resuming(t, "purchaseCredits") /\ ret[t].k = "ok"
    /\ creditState'.photoCredits =
         JsAdd(creditState.photoCredits, Property(PurchasePayload(ret[t].body), AddPurchaseField))

\* C17 as stated: every step that changes photoCredits is the overwrite after
\* a balance fetch (plain or resync) or the optimistic decrement; no other
\* operation of the credit container, purchaseCredits included, changes it.
C17_OnlyFetchAndDecrement ==
  [][BalanceChanges => BalanceFetched \/ Decremented]_vars

\* C17 amended: every step that changes photoCredits is the overwrite after a
\* balance fetch, the optimistic decrement, or the ADD_PURCHASE that
\* purchaseCredits dispatches after a successful purchase; refreshPackages,
\* getPurchaseHistory, a failed fetch and a failed purchase leave it unchanged.
C17_OnlyFetchDecrementAndPurchase ==
  [][BalanceChanges => BalanceFetched \/ Decremented \/ PurchaseAdded]_vars
C17_Witness ==
  \E t \in Tasks :
    /\ hist[t].op = "purchaseCredits" /\ hist[t].done /\ hist[t].ok
    /\ hist[t].credits0 = Num(1) /\ creditState.photoCredits # Num(1)

\* C18: when AuthProvider.refreshToken has returned, either AuthState is
\* signed in with sessionToken the token the server issued last, or the
\* refresh failed, AuthState is SignedOut and the token store is empty.
C18_RefreshSignedInOrCleared ==
  \A t \in Tasks :
    hist[t].op = "authRefreshToken" /\ hist[t].done =>
      IF hist[t].ok
      THEN /\ authState.user # NoUser /\ ~authState.isLoading
           /\ IsTruthy(authState.sessionToken) /\ authState.sessionToken = Token(issued)
      ELSE SignedOut /\ tokenStore = NoToken

\* C19: whenever AuthState is signed in (user present) while the token store
\* holds no token, as after the interceptor cleared it for a failed refresh
\* during a data call, AuthState eventually becomes signed out.
C19_ClearedStoreLeadsToSignedOut ==
  (authState.user # NoUser /\ tokenStore = NoToken) ~> (authState.user = NoUser)

\* C20: in the single-threaded harness the interceptor decides what to do
\* with a request answered 401 only when the refreshToken() call it started
\* has returned or thrown, and a returned refresh has already written its
\* token to the token store; a resent request carries that newly stored
\* token (a real token, different from the bearer that was rejected), and the
\* store still holds it while the resent request is in flight.
Resent(t, i) ==
  /\ i < Len(stack[t])
  /\ stack[t][i].f = "http" /\ stack[t][i].phase = "retrying"
C20_RefreshCompletesBeforeRetry ==
  \A t \in Tasks :
    /\ Resuming(t, "http") /\ Top(t).phase = "refreshing" =>
         /\ ret[t].from = "refreshToken"
         /\ ret[t].k = "ok" => tokenStore = ret[t].body.token
    /\ \A i \in 1..Len(stack[t]) :
         Resent(t, i) =>
           LET resend == stack[t][i + 1] IN
           /\ resend.f = "http" /\ resend.kind = stack[t][i].kind
           /\ IsTruthy(resend.hdr) /\ resend.hdr # stack[t][i].rejected
           /\ resend.phase = "inflight" => resend.hdr = tokenStore
C20_Witness ==
  \E t \in Tasks :
    /\ Len(stack[t]) >= 2 /\ Resent(t, Len(stack[t]) - 1) /\ InFlight(t)
    /\ stack[t][Len(stack[t]) - 1].rejected = Token(1)
    /\ Top(t).hdr = Token(2) /\ tokenStore = Token(2) /\ Top(t).kind = "transform"

\* the refreshToken() calls the interceptor made for the requests of task t
RefreshCalls(t) ==
  refreshBy[t]["signin"] + refreshBy[t]["refresh"] + refreshBy[t]["validate"]
  + refreshBy[t]["balance"] + refreshBy[t]["transform"] + refreshBy[t]["purchase"]
  + refreshBy[t]["packages"] + refreshBy[t]["history"]

\* C21: refreshes are not coalesced: with requests of several call chains in
\* flight at once, every 401 a request receives makes the interceptor call
\* refreshToken() for it, whatever the other call chains are doing, so the
\* number of refresh calls equals the number of 401 answers received.
C21_OneRefreshPer401 ==
  \A t \in Tasks : RefreshCalls(t) = hist[t].unauthorized
\* two refresh requests outstanding at the same time, one for each of two
\* balance requests answered 401
C21_Witness ==
  \E t, u \in Tasks :
    /\ t # u /\ RefreshInFlight(t) /\ RefreshInFlight(u)
    /\ refreshBy[t]["balance"] = 1 /\ refreshBy[u]["balance"] = 1
    /\ hist[t].unauthorized = 1 /\ hist[u].unauthorized = 1

\* the stored-token probe of app start has returned
Probed(t) == hist[t].op = "checkStoredAuth" /\ hist[t].done
\* SignedIn(user, token)
SignedIn ==
  /\ authState.user # NoUser /\ IsTruthy(authState.sessionToken)
  /\ ~authState.isLoading /\ authState.error = NoError

\* C22: once the mount effect has started the stored-token probe, AuthState
\* eventually leaves Loading with the probe returned: isLoading is false, and
\* the state is SignedIn (a user and a session token) if the probe reported a
\* valid token with a user and SignedOut otherwise.
C22_AppStartSettles ==
  authMounted ~> (\E t \in Tasks : /\ Probed(t)
                                   /\ ~authState.isLoading
                                   /\ IF hist[t].ok THEN SignedIn ELSE SignedOut)

\* C23: when the refreshToken() call the interceptor made for a request
\* answered 401 throws, the interceptor rejects that request with the
\* request's own unauthorized (401) error, not with the error that
\* refreshToken() threw.
C23_OriginalErrorDelivered ==
  [][\A t \in Tasks : InterceptorRefreshFailed(t) => ret'[t].err = Top(t).err]_vars

\* the last operation started was the purchaseCredits call of task t, and it
\* has returned
Purchased(t) == hist[t].op = "purchaseCredits" /\ hist[t].done /\ hist[t].latest

\* C24: when a purchaseCredits call has returned and no operation is in
\* flight, CreditState.isLoading is false, whether the purchase succeeded, was
\* declined by the store or failed at the server.
C24_PurchaseLeavesLoading ==
  \A t \in Tasks : Purchased(t) /\ AllIdle => ~creditState.isLoading

\* C25: when a purchaseCredits call has returned true, photoCredits is a
\* well-defined non-negative integer: the balance before the purchase plus
\* the creditsAdded of the purchase response.
C25_PurchaseAddsCreditsAdded ==
  \A t \in Tasks :
    Purchased(t) /\ hist[t].ok /\ AllIdle =>
      /\ ~creditState.photoCredits.nan /\ creditState.photoCredits.n >= 0
      /\ creditState.photoCredits = JsAdd(hist[t].credits0, hist[t].fetched)

\* the last operation started was the handler op of task t
Pressed(t, op) == hist[t].op = op /\ hist[t].latest

\* C26: whenever handleAppleSignIn has called router.replace("/(app)"), the
\* sign-in it awaited succeeded and AuthState has a user; after a failed or
\* cancelled sign-in the handler returns without navigating.
C26_NavigatesOnlyAfterSuccess ==
  \A t \in Tasks :
    Pressed(t, "handleAppleSignIn") /\ hist[t].done =>
      /\ hist[t].replaced => hist[t].ok /\ authState.user # NoUser
      /\ hist[t].arg \in {"malformed", "missing", "canceled"} => ~hist[t].replaced

\* C27: when handlePurchase has returned, it has shown the alert "Purchase
\* Successful" exactly if the purchaseCredits call it awaited returned true;
\* after a declined purchase or a failed server call it has surfaced the
\* failure (setShowError) instead.
C27_SuccessAlertOnlyOnSuccess ==
  \A t \in Tasks :
    Pressed(t, "handlePurchase") /\ hist[t].done =>
      /\ hist[t].alert = AlertPurchaseSuccessful <=> hist[t].ok
      /\ ~hist[t].ok => hist[t].showError

\* C28: whenever AuthState is signed in (a user, not loading) and no
\* operation is in flight, AuthState.sessionToken is the token the token
\* store holds.
C28_SessionTokenIsStoredToken ==
  authState.user # NoUser /\ ~authState.isLoading /\ AllIdle =>
    authState.sessionToken = tokenStore

\* every balance fetch that was issued has completed
FetchesDone == AllIdle /\ \A u \in Tasks : hist[u].op = "refreshBalance" => hist[u].done

\* C29: when several balance fetches overlapped and all of them have
\* completed, photoCredits is the balance returned to the fetch that was
\* issued last (if it returned one): an older fetch's response does not
\* overwrite it.
C29_LatestFetchWins ==
  \A t \in Tasks :
    /\ FetchesDone
    /\ hist[t].op = "refreshBalance" /\ hist[t].latest /\ hist[t].ok
    => creditState.photoCredits = hist[t].fetched

\* the interceptor refresh for the balance request of task t succeeded: the
\* request was resent with the token it stored
RefreshSucceeded(t) == refreshBy[t]["balance"] = 1 /\ sent[t]["balance"] = 2
\* two requests were answered 401 and each started its own refresh
TwoRefreshes ==
  \E t, u \in Tasks : t # u /\ refreshBy[t]["balance"] = 1 /\ refreshBy[u]["balance"] = 1

\* C30: when two overlapping requests were answered 401 and started separate
\* refreshes, and both call chains have settled with at least one refresh
\* successful, the token store holds a token: the failure handling of the
\* other refresh has not removed what the successful one wrote.
C30_SuccessfulRefreshTokenKept ==
  FetchesDone /\ TwoRefreshes /\ (\E t \in Tasks : RefreshSucceeded(t))
  => IsTruthy(tokenStore)

====
